---- MODULE Spec2Model ----
(***************************************************************************)
(* Model of the diyjvm class-file decoder (src/src/main.c):                *)
(* read_class_file, read_constant_pool_entry, the primitive readers and    *)
(* free_class_file, together with the heap and the input stream they use.  *)
(*                                                                         *)
(* The input is a sequence of bytes.  The decoder is a state machine whose *)
(* position (pc) is the stage of read_class_file about to run.  The heap   *)
(* is a sequence of allocations, a pointer is an index into it and NULL is *)
(* 0; every allocation counts how often it has been passed to free().      *)
(* 32-bit quantities that may exceed the range of TLC integers (the      *)
(* magic) are kept as four bytes, most significant first.                  *)
(***************************************************************************)
EXTENDS Integers, Sequences, FiniteSets, TLC

----------------------------------------------------------------------------
(* Bounds of the model *)

\* longest constant pool (in entries) of the generated pool inputs
MaxPool == 2
\* most methods in a generated input
MaxMethods == 2
\* most attributes drawn freely for one generated method
MaxAttrs == 2
\* most calls of free_class_file the caller makes on one result
MaxRelease == 2

----------------------------------------------------------------------------
(* Program constants (include/diyjvm.h, reproduced in src/README.md) *)

JAVA_MAGIC == <<202, 254, 186, 190>>
MAX_STRING_LENGTH == 65535
MAX_CONSTANT_POOL_SIZE == 32767
CONSTANT_Class == 7
CONSTANT_Fieldref == 9
CONSTANT_Methodref == 10
CONSTANT_InterfaceMethodref == 11
CONSTANT_String == 8
CONSTANT_Integer == 3
CONSTANT_Float == 4
CONSTANT_Long == 5
CONSTANT_Double == 6
CONSTANT_NameAndType == 12
CONSTANT_Utf8 == 1
\* lowest and highest supported major version, and the method-count ceiling
MIN_MAJOR == 45
MAX_MAJOR == 69
MAX_METHODS == 1000
\* the literal "Code" as a C string: its bytes followed by the terminator
CodeLiteral == <<67, 111, 100, 101, 0>>
NULL == 0

----------------------------------------------------------------------------
(* Primitive reader: fread on the stream, host load and byte swap *)

Max(a, b) == IF a >= b THEN a ELSE b

\* fread delivers all n requested bytes iff they lie before the end of file
\* (a request for no bytes is always met)
CanRead(inp, p, n) == n = 0 \/ p + n <= Len(inp)

\* the n bytes at cursor p
BytesAt(inp, p, n) == SubSeq(inp, p + 1, p + n)

\* what fread stores when asked for n bytes: those of them the file still holds
FreadBytes(inp, p, n) ==
    IF n = 0 THEN <<>>
    ELSE IF CanRead(inp, p, n) THEN BytesAt(inp, p, n)
    ELSE SubSeq(inp, p + 1, Len(inp))

\* cursor after fread of n bytes: a short read consumes what is left
fread_pos(inp, p, n) ==
    IF CanRead(inp, p, n) THEN p + n ELSE Max(p, Len(inp))

\* safe_fread: 1 iff the full count was read
safe_fread(inp, p, n) == IF CanRead(inp, p, n) THEN 1 ELSE 0

\* a uint16_t loaded from two bytes of memory on the (little-endian) host
Load16(m) == m[1] + 256 * m[2]
bswap16(v) == (v % 256) * 256 + (v \div 256)

\* a uint32_t loaded from four bytes of memory, most significant byte first
Load32(m) == <<m[4], m[3], m[2], m[1]>>
\* faulty variant: the swap forgotten: the host's byte order is taken for the file's
bswap32_forgotten(w) == w
bswap32(w) == <<w[4], w[3], w[2], w[1]>>

\* read_u1/read_u2/read_u4 at cursor p (the bytes are known to be there)
read_u1(inp, p) == inp[p + 1]
read_u2(inp, p) == bswap16(Load16(BytesAt(inp, p, 2)))
read_u4(inp, p) == bswap32(Load32(BytesAt(inp, p, 4)))

\* numeric value of a uint32_t below 2^31 (lengths of the modelled inputs)
U32Val(w) == ((w[1] * 256 + w[2]) * 256 + w[3]) * 256 + w[4]

\* fseek(fp, n, SEEK_CUR) on a regular file: the cursor may pass the end
fseek_pos(p, n) == p + n

----------------------------------------------------------------------------
(* Input files: byte sequences in the layout read_class_file expects *)

U2(n) == <<n \div 256, n % 256>>
U4(n) == <<0, 0>> \o U2(n)

RECURSIVE Flatten(_)
Flatten(ss) == IF ss = <<>> THEN <<>> ELSE Head(ss) \o Flatten(Tail(ss))

RECURSIVE SumSlots(_)
SumSlots(es) == IF es = <<>> THEN 0 ELSE Head(es).slots + SumSlots(Tail(es))

\* all sequences over S of length at most n
SeqsUpTo(S, n) == UNION {[1..k -> S] : k \in 0..n}

\* pool entries as they stand in a file, with the table slots the format gives them
E_Code     == [bytes |-> <<1, 0, 4, 67, 111, 100, 101>>, slots |-> 1]
E_CodeNul  == [bytes |-> <<1, 0, 6, 67, 111, 100, 101, 0, 88>>, slots |-> 1]
E_Cod      == [bytes |-> <<1, 0, 3, 67, 111, 100>>, slots |-> 1]
E_Empty    == [bytes |-> <<1, 0, 0>>, slots |-> 1]
E_Int      == [bytes |-> <<3, 0, 0, 0, 7>>, slots |-> 1]
E_Float    == [bytes |-> <<4, 63, 128, 0, 0>>, slots |-> 1]
E_Long     == [bytes |-> <<5, 0, 0, 0, 0, 0, 0, 0, 9>>, slots |-> 2]
E_Double   == [bytes |-> <<6, 64, 0, 0, 0, 0, 0, 0, 0>>, slots |-> 2]
E_Class    == [bytes |-> <<7, 0, 1>>, slots |-> 1]
E_String   == [bytes |-> <<8, 0, 1>>, slots |-> 1]
E_Field    == [bytes |-> <<9, 0, 1, 0, 2>>, slots |-> 1]
E_Method   == [bytes |-> <<10, 0, 1, 0, 2>>, slots |-> 1]
E_IMethod  == [bytes |-> <<11, 0, 1, 0, 2>>, slots |-> 1]
E_NameType == [bytes |-> <<12, 0, 1, 0, 2>>, slots |-> 1]
E_Unknown  == [bytes |-> <<2>>, slots |-> 1]

AllEntries == {E_Code, E_CodeNul, E_Cod, E_Empty, E_Int, E_Float, E_Long,
               E_Double, E_Class, E_String, E_Field, E_Method, E_IMethod,
               E_NameType, E_Unknown}
SeqEntries == {E_Cod, E_Long, E_Int, E_Unknown}

PoolBytes(es) == Flatten([n \in 1..Len(es) |-> es[n].bytes])

\* header up to and including constant_pool_count
HeaderBytes(magic, major, cpc) == magic \o U2(0) \o U2(major) \o U2(cpc)

\* access_flags, this_class, super_class
ClassHeaderBytes == U2(33) \o U2(2) \o U2(3)

\* an attribute record: name index, length, payload
AttrBytes(nameIdx, len, payload) == U2(nameIdx) \o U4(len) \o payload

\* the payload of a Code attribute
CodePayload(code, excs, subs) ==
    U2(2) \o U2(1) \o U4(Len(code)) \o code
    \o U2(excs) \o Flatten([n \in 1..excs |-> <<0, 0, 0, 1, 0, 1, 0, 0>>])
    \o U2(Len(subs)) \o Flatten(subs)

\* a method record with the given attribute records
MethodBytes(attrs) == U2(1) \o U2(5) \o U2(5) \o U2(Len(attrs)) \o Flatten(attrs)

\* the pool of the method inputs: 1 "Code", 2 "Code\0X", 3 Long (4 unused), 5 "Cod";
\* its constant_pool_count is 6
MethodPool == <<E_Code, E_CodeNul, E_Long, E_Cod>>

PlainCode == CodePayload(<<177>>, 0, <<>>)
RichCode  == CodePayload(<<>>, 1, <<AttrBytes(5, 1, <<9>>)>>)

A_Code    == AttrBytes(1, Len(PlainCode), PlainCode)
A_Rich    == AttrBytes(1, Len(RichCode), RichCode)
A_Skip    == AttrBytes(5, 2, <<8, 9>>)
A_NulCode == AttrBytes(2, Len(PlainCode), PlainCode)
A_Zero    == AttrBytes(0, 1, <<9>>)
A_Gap     == AttrBytes(4, 0, <<>>)
A_Past    == AttrBytes(6, 1, <<9>>)
\* "Code" attributes whose declared length is not the size of their payload:
\* two bytes more than the Code structure holds, and none at all
A_Padded  == AttrBytes(1, Len(PlainCode) + 2, PlainCode \o <<8, 9>>)
A_Clipped == AttrBytes(1, 0, PlainCode)

\* the attribute lists of the method under study
FocusAttrs ==
    SeqsUpTo({A_Code, A_Skip}, MaxAttrs)
    \cup {<<a>> : a \in {A_Rich, A_NulCode, A_Zero, A_Gap, A_Past, A_Padded,
                            A_Clipped}}
    \cup {<<A_Code, a>> : a \in {A_Past, A_Zero}}

\* method tables: one method under study among plain methods
MethodTables ==
    {<<>>} \cup
    {[n \in 1..m |-> IF n = f THEN MethodBytes(fa) ELSE MethodBytes(<<A_Code>>)] :
        m \in 1..MaxMethods, f \in 1..MaxMethods, fa \in FocusAttrs}

\* no interfaces, no fields
NoMembers == U2(0) \o U2(0)
\* one interface and one field with one attribute
SomeMembers ==
    U2(1) \o U2(4) \o U2(1) \o U2(1) \o U2(5) \o U2(5) \o U2(1) \o AttrBytes(5, 1, <<9>>)

GoodHeader(cpc) == HeaderBytes(JAVA_MAGIC, 52, cpc)

\* the minimal well-formed file: empty pool, no interfaces, fields or methods
MinimalFile == GoodHeader(1) \o ClassHeaderBytes \o NoMembers \o U2(0)

HeaderFiles ==
    {HeaderBytes(mg, 52, 1) \o ClassHeaderBytes \o NoMembers \o U2(0) :
        mg \in {JAVA_MAGIC, <<190, 186, 254, 202>>, <<202, 254, 186, 191>>,
                <<0, 0, 0, 0>>}}
    \cup {HeaderBytes(JAVA_MAGIC, mj, 1) \o ClassHeaderBytes \o NoMembers \o U2(0) :
        mj \in {0, 44, 45, 69, 70, 11520}}
    \cup {GoodHeader(cpc) \o ClassHeaderBytes \o NoMembers \o U2(0) :
        cpc \in {0, 1, 32767, 32768, 65535}}
    \cup {GoodHeader(1) \o ClassHeaderBytes \o NoMembers \o U2(mc) :
        mc \in {0, 1, 1000, 1001, 65535}}

PoolFiles ==
    {GoodHeader(1 + SumSlots(es)) \o PoolBytes(es) \o ClassHeaderBytes
        \o SomeMembers \o U2(0) :
        es \in SeqsUpTo(SeqEntries, MaxPool) \cup {<<e>> : e \in AllEntries}}

MethodFiles ==
    {GoodHeader(1 + SumSlots(MethodPool)) \o PoolBytes(MethodPool)
        \o ClassHeaderBytes \o NoMembers \o U2(Len(ms)) \o Flatten(ms) :
        ms \in MethodTables}

\* files whose constant_pool_count is one short of the slots of their pool, so
\* that the Long or Double closing the pool stands in the table's last slot
WideLastFiles ==
    {GoodHeader(SumSlots(es)) \o PoolBytes(es) \o ClassHeaderBytes
        \o SomeMembers \o U2(0) :
        es \in {<<E_Long>>, <<E_Int, E_Double>>}}
    \cup {GoodHeader(SumSlots(<<E_Code, E_Long>>)) \o PoolBytes(<<E_Code, E_Long>>)
            \o ClassHeaderBytes \o NoMembers \o U2(1) \o MethodBytes(<<A_Code>>)}

Files == HeaderFiles \cup PoolFiles \cup MethodFiles \cup WideLastFiles

----------------------------------------------------------------------------
(* State *)

VARIABLES
    input,          \* the bytes of the file being decoded
    truncated,      \* input is a proper prefix of a file an earlier run accepted
    fileOpened,     \* fopen succeeded
    closeCount,     \* number of fclose calls on the stream
    pos,            \* the stream's cursor
    pc,             \* the stage of read_class_file about to run
    heap,           \* the allocations made so far
    cfp,            \* read_class_file's local cf
    cf,             \* the fields of *cf
    pool,           \* the entries of cf->constant_pool written so far (others are zero)
    methods,        \* the entries of cf->methods written so far (others are zero)
    i, j, k,        \* the loop indices of the stage
    attr,           \* attribute_name_index and attr_length of the attribute at hand,
                    \* with the offset at which its record starts
    field_attr_count,   \* the local of the field loop
    code_attr_count,    \* the local of the Code decoder
    result,         \* what read_class_file returned
    fault,          \* the environment failure injected in this run, if any
    releaseCalls,   \* calls of free_class_file made by the caller on result
    uaf             \* freed memory has been read or freed again

vars == <<input, truncated, fileOpened, closeCount, pos, pc, heap, cfp, cf, pool,
          methods, i, j, k, attr, field_attr_count, code_attr_count, result, fault,
          releaseCalls, uaf>>

ZeroCF ==
    [magic |-> <<0, 0, 0, 0>>, minor_version |-> 0, major_version |-> 0,
     constant_pool_count |-> 0, constant_pool |-> NULL, access_flags |-> 0,
     this_class |-> 0, super_class |-> 0, interfaces_count |-> 0,
     fields_count |-> 0, methods_count |-> 0, methods |-> NULL]

ZeroCode == [max_stack |-> 0, max_locals |-> 0, code_length |-> 0, code |-> NULL]

ZeroEntry == [tag |-> 0, length |-> 0, bytes |-> NULL]

ZeroMethod ==
    [access_flags |-> 0, name_index |-> 0, descriptor_index |-> 0,
     attributes_count |-> 0, code_attribute |-> NULL]

ZeroAttr == [name_index |-> 0, length |-> 0, start |-> 0]

\* the empty table: no entry written
NoEntries == [x \in {} |-> ZeroEntry]

\* calloc'ed tables read as zero where nothing was written
PoolAt(p, x) == IF x \in DOMAIN p THEN p[x] ELSE ZeroEntry
MethodAt(m, x) == IF x \in DOMAIN m THEN m[x] ELSE ZeroMethod

\* malloc/calloc: a new allocation at the end of the heap
Alloc(h, kind, bytes) ==
    Append(h, [kind |-> kind, frees |-> 0, bytes |-> bytes, ca |-> ZeroCode])
NewPtr(h) == Len(h) + 1

\* what an allocation request may return: a pointer, or NULL (out of memory;
\* for a request of zero bytes NULL is also a legal answer of the allocator)
AllocOutcomes == {"ptr", "null"}
AllocFault(size) == IF size = 0 THEN "zero" ELSE "oom"

Init ==
    /\ input \in Files
    /\ truncated = FALSE
    /\ fileOpened = FALSE
    /\ closeCount = 0
    /\ pos = 0
    /\ pc = "open"
    /\ heap = <<>>
    /\ cfp = NULL
    /\ cf = ZeroCF
    /\ pool = NoEntries
    /\ methods = NoEntries
    /\ i = 0 /\ j = 0 /\ k = 0
    /\ attr = ZeroAttr
    /\ field_attr_count = 0
    /\ code_attr_count = 0
    /\ result = NULL
    /\ fault = "none"
    /\ releaseCalls = 0
    /\ uaf = FALSE

----------------------------------------------------------------------------
(* free_class_file and the cleanup block of every failure exit *)

\* the Utf8 buffers free_class_file releases: the loop over the pool table
Utf8Ptrs(c, p) ==
    IF c.constant_pool = NULL THEN {}
    ELSE {p[x].bytes : x \in {y \in DOMAIN p :
              /\ y < c.constant_pool_count
              /\ p[y].tag = CONSTANT_Utf8
              /\ p[y].bytes # NULL}}

\* the code_attribute structures free_class_file releases: the loop over methods
CodeAttrPtrs(c, m) ==
    IF c.methods = NULL THEN {}
    ELSE {m[x].code_attribute : x \in {y \in DOMAIN m :
              /\ y < c.methods_count
              /\ m[y].code_attribute # NULL}}

\* the instruction buffers of those code_attributes
CodeBufPtrs(h, c, m) == {h[a].ca.code : a \in CodeAttrPtrs(c, m)} \ {NULL}

\* everything one call free_class_file(ptr) passes to free()
FreedBy(h, c, p, m, ptr) ==
    IF ptr = NULL THEN {}
    ELSE Utf8Ptrs(c, p) \cup CodeAttrPtrs(c, m) \cup CodeBufPtrs(h, c, m)
         \cup ({c.constant_pool, c.methods} \ {NULL}) \cup {ptr}

\* the heap after free_class_file(ptr)
free_heap(h, c, p, m, ptr) ==
    [x \in DOMAIN h |->
        IF x \in FreedBy(h, c, p, m, ptr)
        THEN [h[x] EXCEPT !.frees = @ + 1, !.ca.code = NULL]
        ELSE h[x]]

\* SAFE_FREE sets the pointers it released to NULL
free_pool(c, p, ptr) ==
    IF ptr = NULL \/ c.constant_pool = NULL THEN p
    ELSE [x \in DOMAIN p |->
            IF x < c.constant_pool_count /\ p[x].tag = CONSTANT_Utf8
            THEN [p[x] EXCEPT !.bytes = NULL] ELSE p[x]]

free_methods(c, m, ptr) ==
    IF ptr = NULL \/ c.methods = NULL THEN m
    ELSE [x \in DOMAIN m |->
            IF x < c.methods_count
            THEN [m[x] EXCEPT !.code_attribute = NULL] ELSE m[x]]

free_cf(c, ptr) ==
    IF ptr = NULL THEN c ELSE [c EXCEPT !.constant_pool = NULL, !.methods = NULL]

\* fclose(file)
fclose(n) == n + 1

\* variables no step of read_class_file touches
Caller == <<input, truncated, releaseCalls, uaf>>

\* faulty variant: a cleanup block that frees the container but forgets fclose(file)
Fail_without_fclose(h, c, p, m, np, f) ==
    /\ pc' = "failed"
    /\ heap' = free_heap(h, c, p, m, cfp)
    /\ cf' = free_cf(c, cfp)
    /\ pool' = free_pool(c, p, cfp)
    /\ methods' = free_methods(c, m, cfp)
    /\ pos' = np
    /\ fault' = f
    /\ result' = NULL
    /\ closeCount' = closeCount
    /\ UNCHANGED <<fileOpened, cfp, i, j, k, attr, field_attr_count, code_attr_count>>
    /\ UNCHANGED Caller

\* ERROR_AND_CLEANUP(msg, { free_class_file(cf); fclose(file); }): the state
\* (h, c, p, m) reached inside the failing stage is torn down, NULL is returned
Fail(h, c, p, m, np, f) ==
    /\ pc' = "failed"
    /\ heap' = free_heap(h, c, p, m, cfp)
    /\ cf' = free_cf(c, cfp)
    /\ pool' = free_pool(c, p, cfp)
    /\ methods' = free_methods(c, m, cfp)
    /\ pos' = np
    /\ fault' = f
    /\ result' = NULL
    /\ closeCount' = fclose(closeCount)
    /\ UNCHANGED <<fileOpened, cfp, i, j, k, attr, field_attr_count, code_attr_count>>
    /\ UNCHANGED Caller

----------------------------------------------------------------------------
(* read_class_file: open, container, magic, version, pool count *)

\* fopen, malloc(sizeof(ClassFile)), memset
Open ==
    /\ pc = "open"
    /\ \E opn \in BOOLEAN, out \in AllocOutcomes :
        IF ~opn
        THEN /\ pc' = "failed" /\ fault' = "open" /\ result' = NULL
             /\ UNCHANGED <<fileOpened, closeCount, heap, cfp, cf>>
        ELSE IF out = "null"
        THEN /\ pc' = "failed" /\ fault' = "oom" /\ result' = NULL
             /\ fileOpened' = TRUE
             /\ closeCount' = fclose(closeCount)
             /\ UNCHANGED <<heap, cfp, cf>>
        ELSE /\ pc' = "magic"
             /\ fileOpened' = TRUE
             /\ heap' = Alloc(heap, "ClassFile", <<>>)
             /\ cfp' = NewPtr(heap)
             /\ cf' = ZeroCF
             /\ UNCHANGED <<closeCount, fault, result>>
    /\ UNCHANGED <<pos, pool, methods, i, j, k, attr, field_attr_count, code_attr_count>>
    /\ UNCHANGED Caller

\* cf->magic != JAVA_MAGIC is fatal
MagicOK(m) == m = JAVA_MAGIC

ReadMagic ==
    /\ pc = "magic"
    /\ LET ok == CanRead(input, pos, 4)
           c  == [cf EXCEPT !.magic = IF ok THEN read_u4(input, pos) ELSE <<0, 0, 0, 0>>]
           np == fread_pos(input, pos, 4)
       IN  IF ~ok \/ ~MagicOK(c.magic)
           THEN Fail(heap, c, pool, methods, np, fault)
           ELSE /\ pc' = "version" /\ cf' = c /\ pos' = np
                /\ UNCHANGED <<fileOpened, closeCount, heap, cfp, pool, methods, i, j, k,
                               attr, field_attr_count, code_attr_count, result, fault>>
                /\ UNCHANGED Caller

\* faulty variant: only the upper end of the version range is checked
VersionOK_upper_only(major) == major <= MAX_MAJOR

\* major_version < 45 || major_version > 69 is fatal
VersionOK(major) == major >= MIN_MAJOR /\ major <= MAX_MAJOR

ReadVersion ==
    /\ pc = "version"
    /\ LET ok == CanRead(input, pos, 4)
           c  == [cf EXCEPT
                    !.minor_version = IF CanRead(input, pos, 2)
                                      THEN read_u2(input, pos) ELSE 0,
                    !.major_version = IF ok THEN read_u2(input, pos + 2) ELSE 0]
           np == fread_pos(input, pos, 4)
       IN  IF ~ok \/ ~VersionOK(c.major_version)
           THEN Fail(heap, c, pool, methods, np, fault)
           ELSE /\ pc' = "pool_count" /\ cf' = c /\ pos' = np
                /\ UNCHANGED <<fileOpened, closeCount, heap, cfp, pool, methods, i, j, k,
                               attr, field_attr_count, code_attr_count, result, fault>>
                /\ UNCHANGED Caller

\* constant_pool_count > MAX_CONSTANT_POOL_SIZE is fatal
PoolCountOK(n) == n <= MAX_CONSTANT_POOL_SIZE

ReadPoolCount ==
    /\ pc = "pool_count"
    /\ LET ok == CanRead(input, pos, 2)
           c  == [cf EXCEPT !.constant_pool_count =
                                IF ok THEN read_u2(input, pos) ELSE 0]
           np == fread_pos(input, pos, 2)
       IN  IF ~ok \/ ~PoolCountOK(c.constant_pool_count)
           THEN Fail(heap, c, pool, methods, np, fault)
           ELSE /\ pc' = "pool_alloc" /\ cf' = c /\ pos' = np
                /\ UNCHANGED <<fileOpened, closeCount, heap, cfp, pool, methods, i, j, k,
                               attr, field_attr_count, code_attr_count, result, fault>>
                /\ UNCHANGED Caller

----------------------------------------------------------------------------
(* The constant pool *)

\* calloc(constant_pool_count, sizeof(cp_info)), then the loop starts at i = 1
AllocPool ==
    /\ pc = "pool_alloc"
    /\ \E out \in AllocOutcomes :
        IF out = "null"
        THEN Fail(heap, cf, pool, methods, pos, AllocFault(cf.constant_pool_count))
        ELSE /\ heap' = Alloc(heap, "pool", <<>>)
             /\ cf' = [cf EXCEPT !.constant_pool = NewPtr(heap)]
             /\ pool' = NoEntries
             /\ i' = 1
             /\ pc' = IF 1 < cf.constant_pool_count THEN "pool" ELSE "class_header"
             /\ UNCHANGED <<fileOpened, closeCount, pos, cfp, methods, j, k, attr,
                            field_attr_count, code_attr_count, result, fault>>
             /\ UNCHANGED Caller

\* bytes read_constant_pool_entry reads after the tag, the Utf8 content apart
PayloadSize(tag) ==
    CASE tag = CONSTANT_Class -> 2
      [] tag = CONSTANT_Utf8 -> 2
      [] tag = CONSTANT_Integer -> 4
      [] tag = CONSTANT_String -> 2
      [] tag \in {CONSTANT_Fieldref, CONSTANT_Methodref,
                  CONSTANT_InterfaceMethodref} -> 4
      [] tag = CONSTANT_NameAndType -> 4
      [] tag \in {CONSTANT_Long, CONSTANT_Double} -> 8
      [] OTHER -> 0

\* faulty variant: Long and Double counted as one slot like every other entry
SlotStep_always_one(tag) == 1

\* the value read_constant_pool_entry returns on success: table slots consumed
SlotStep(tag) == IF tag \in {CONSTANT_Long, CONSTANT_Double} THEN 2 ELSE 1

\* read_constant_pool_entry at cursor p; mallocOK is the allocator's answer
\* should the entry ask for a buffer.  entry is what *entry holds afterwards,
\* content the bytes of a buffer it allocated.
read_constant_pool_entry(inp, p, mallocOK) ==
    IF ~CanRead(inp, p, 1)
    THEN [ok |-> FALSE, step |-> 0, pos |-> fread_pos(inp, p, 1), entry |-> ZeroEntry,
          alloc |-> FALSE, content |-> <<>>, fault |-> "none"]
    ELSE
    LET tag == read_u1(inp, p)
        q   == p + 1
        n   == PayloadSize(tag)
        e   == [ZeroEntry EXCEPT !.tag = tag]
    IN  IF tag = CONSTANT_Utf8
        THEN IF ~CanRead(inp, q, 2)
             THEN [ok |-> FALSE, step |-> 0, pos |-> fread_pos(inp, q, 2), entry |-> e,
                   alloc |-> FALSE, content |-> <<>>, fault |-> "none"]
             ELSE
             LET length == read_u2(inp, q)
                 r      == q + 2
                 el     == [e EXCEPT !.length = length]
             IN  IF length > MAX_STRING_LENGTH
                 THEN [ok |-> FALSE, step |-> 0, pos |-> r, entry |-> e,
                       alloc |-> FALSE, content |-> <<>>, fault |-> "none"]
                 ELSE IF ~mallocOK
                 THEN [ok |-> FALSE, step |-> 0, pos |-> r, entry |-> el,
                       alloc |-> FALSE, content |-> <<>>, fault |-> "oom"]
                 ELSE IF safe_fread(inp, r, length) = 0
                 THEN [ok |-> FALSE, step |-> 0, pos |-> fread_pos(inp, r, length),
                       entry |-> el, alloc |-> TRUE,
                       content |-> FreadBytes(inp, r, length), fault |-> "none"]
                 ELSE [ok |-> TRUE, step |-> 1, pos |-> r + length, entry |-> el,
                       alloc |-> TRUE, content |-> BytesAt(inp, r, length) \o <<0>>,
                       fault |-> "none"]
        ELSE [ok |-> CanRead(inp, q, n), step |-> SlotStep(tag),
              pos |-> fread_pos(inp, q, n), entry |-> e, alloc |-> FALSE,
              content |-> <<>>, fault |-> "none"]

\* whether the entry at the cursor asks the allocator for a buffer
WantsBuffer(inp, p) ==
    /\ CanRead(inp, p, 3)
    /\ read_u1(inp, p) = CONSTANT_Utf8
    /\ read_u2(inp, p + 1) <= MAX_STRING_LENGTH

\* one iteration of the pool loop: decode into slot i, advance i by the step
ReadPoolEntry ==
    /\ pc = "pool"
    /\ \E out \in AllocOutcomes :
        /\ out = "null" => WantsBuffer(input, pos)
        /\ LET r  == read_constant_pool_entry(input, pos, out = "ptr")
               h  == IF r.alloc THEN Alloc(heap, "utf8", r.content) ELSE heap
               e  == IF r.alloc THEN [r.entry EXCEPT !.bytes = NewPtr(heap)]
                     ELSE r.entry
               p  == (i :> e) @@ pool
           IN  IF ~r.ok \/ r.step = 0
               THEN Fail(h, cf, p, methods, r.pos,
                         IF r.fault = "none" THEN fault ELSE r.fault)
               ELSE /\ heap' = h
                    /\ pool' = p
                    /\ pos' = r.pos
                    /\ i' = i + r.step
                    /\ pc' = IF i + r.step < cf.constant_pool_count
                             THEN "pool" ELSE "class_header"
                    /\ UNCHANGED <<fileOpened, closeCount, cfp, cf, methods, j, k, attr,
                                   field_attr_count, code_attr_count, result, fault>>
                    /\ UNCHANGED Caller

----------------------------------------------------------------------------
(* Class header, interfaces, fields *)

\* access_flags, this_class, super_class
ReadClassHeader ==
    /\ pc = "class_header"
    /\ LET ok == CanRead(input, pos, 6)
           np == fread_pos(input, pos, 6)
           c  == [cf EXCEPT
                    !.access_flags = IF CanRead(input, pos, 2)
                                     THEN read_u2(input, pos) ELSE 0,
                    !.this_class = IF CanRead(input, pos, 4)
                                   THEN read_u2(input, pos + 2) ELSE 0,
                    !.super_class = IF ok THEN read_u2(input, pos + 4) ELSE 0]
       IN  IF ~ok
           THEN Fail(heap, c, pool, methods, np, fault)
           ELSE /\ pc' = "interfaces" /\ cf' = c /\ pos' = np
                /\ UNCHANGED <<fileOpened, closeCount, heap, cfp, pool, methods, i, j, k,
                               attr, field_attr_count, code_attr_count, result, fault>>
                /\ UNCHANGED Caller

\* what fseek may answer: 0, or an error of the stream
SeekOutcomes == {"ok", "error"}

\* interfaces_count, then a seek over count * 2 bytes when the count is positive
ReadInterfaces ==
    /\ pc = "interfaces"
    /\ \E sk \in SeekOutcomes :
        LET ok == CanRead(input, pos, 2)
            np == fread_pos(input, pos, 2)
            c  == [cf EXCEPT !.interfaces_count =
                                 IF ok THEN read_u2(input, pos) ELSE 0]
        IN  /\ sk = "error" => ok /\ c.interfaces_count > 0
            /\ IF ~ok
               THEN Fail(heap, c, pool, methods, np, fault)
               ELSE IF sk = "error"
               THEN Fail(heap, c, pool, methods, np, "seek")
               ELSE /\ pc' = "fields_count" /\ cf' = c
                    /\ pos' = IF c.interfaces_count > 0
                              THEN fseek_pos(np, c.interfaces_count * 2) ELSE np
                    /\ UNCHANGED <<fileOpened, closeCount, heap, cfp, pool, methods, i, j,
                                   k, attr, field_attr_count, code_attr_count, result,
                                   fault>>
                    /\ UNCHANGED Caller

\* fields_count; the field loop starts at i = 0
ReadFieldsCount ==
    /\ pc = "fields_count"
    /\ LET ok == CanRead(input, pos, 2)
           np == fread_pos(input, pos, 2)
           c  == [cf EXCEPT !.fields_count = IF ok THEN read_u2(input, pos) ELSE 0]
       IN  IF ~ok
           THEN Fail(heap, c, pool, methods, np, fault)
           ELSE /\ pc' = IF 0 < c.fields_count THEN "field" ELSE "methods_count"
                /\ cf' = c /\ pos' = np /\ i' = 0
                /\ UNCHANGED <<fileOpened, closeCount, heap, cfp, pool, methods, j, k,
                               attr, field_attr_count, code_attr_count, result, fault>>
                /\ UNCHANGED Caller

\* the four fixed fields of field i; its attribute loop starts at j = 0
ReadFieldInfo ==
    /\ pc = "field"
    /\ LET ok == CanRead(input, pos, 8)
           np == fread_pos(input, pos, 8)
           n  == IF ok THEN read_u2(input, pos + 6) ELSE 0
       IN  IF ~ok
           THEN Fail(heap, cf, pool, methods, np, fault)
           ELSE /\ field_attr_count' = n
                /\ j' = 0
                /\ pos' = np
                /\ IF 0 < n
                   THEN pc' = "field_attr" /\ i' = i
                   ELSE /\ i' = i + 1
                        /\ pc' = IF i + 1 < cf.fields_count
                                 THEN "field" ELSE "methods_count"
                /\ UNCHANGED <<fileOpened, closeCount, heap, cfp, cf, pool, methods, k,
                               attr, code_attr_count, result, fault>>
                /\ UNCHANGED Caller

\* attribute j of field i: name index, length, seek over the payload
SkipFieldAttr ==
    /\ pc = "field_attr"
    /\ \E sk \in SeekOutcomes :
        LET ok  == CanRead(input, pos, 6)
            np  == fread_pos(input, pos, 6)
            len == IF ok THEN U32Val(read_u4(input, pos + 2)) ELSE 0
        IN  /\ sk = "error" => ok
            /\ IF ~ok
               THEN Fail(heap, cf, pool, methods, np, fault)
               ELSE IF sk = "error"
               THEN Fail(heap, cf, pool, methods, np, "seek")
               ELSE /\ pos' = fseek_pos(np, len)
                    /\ j' = j + 1
                    /\ IF j + 1 < field_attr_count
                       THEN pc' = "field_attr" /\ i' = i
                       ELSE /\ i' = i + 1
                            /\ pc' = IF i + 1 < cf.fields_count
                                     THEN "field" ELSE "methods_count"
                    /\ UNCHANGED <<fileOpened, closeCount, heap, cfp, cf, pool, methods,
                                   k, attr, field_attr_count, code_attr_count, result,
                                   fault>>
                    /\ UNCHANGED Caller

----------------------------------------------------------------------------
(* Methods and their attributes *)

\* methods_count > 1000 is fatal
MethodCountOK(n) == n <= MAX_METHODS

ReadMethodsCount ==
    /\ pc = "methods_count"
    /\ LET ok == CanRead(input, pos, 2)
           np == fread_pos(input, pos, 2)
           c  == [cf EXCEPT !.methods_count = IF ok THEN read_u2(input, pos) ELSE 0]
       IN  IF ~ok \/ ~MethodCountOK(c.methods_count)
           THEN Fail(heap, c, pool, methods, np, fault)
           ELSE /\ pc' = "methods_alloc" /\ cf' = c /\ pos' = np
                /\ UNCHANGED <<fileOpened, closeCount, heap, cfp, pool, methods, i, j, k,
                               attr, field_attr_count, code_attr_count, result, fault>>
                /\ UNCHANGED Caller

\* calloc(methods_count, sizeof(method_info)), then the loop starts at i = 0
AllocMethods ==
    /\ pc = "methods_alloc"
    /\ \E out \in AllocOutcomes :
        IF out = "null"
        THEN Fail(heap, cf, pool, methods, pos, AllocFault(cf.methods_count))
        ELSE /\ heap' = Alloc(heap, "methods", <<>>)
             /\ cf' = [cf EXCEPT !.methods = NewPtr(heap)]
             /\ methods' = NoEntries
             /\ i' = 0
             /\ pc' = IF 0 < cf.methods_count THEN "method" ELSE "finish"
             /\ UNCHANGED <<fileOpened, closeCount, pos, cfp, pool, j, k, attr,
                            field_attr_count, code_attr_count, result, fault>>
             /\ UNCHANGED Caller

\* the four fixed fields of method i; its attribute loop starts at j = 0
ReadMethodInfo ==
    /\ pc = "method"
    /\ LET ok == CanRead(input, pos, 8)
           np == fread_pos(input, pos, 8)
           rd(off) == IF CanRead(input, pos, off + 2)
                      THEN read_u2(input, pos + off) ELSE 0
           mi == [MethodAt(methods, i) EXCEPT
                    !.access_flags = rd(0), !.name_index = rd(2),
                    !.descriptor_index = rd(4), !.attributes_count = rd(6)]
           m  == (i :> mi) @@ methods
       IN  IF ~ok
           THEN Fail(heap, cf, pool, m, np, fault)
           ELSE /\ methods' = m
                /\ j' = 0
                /\ pos' = np
                /\ IF 0 < mi.attributes_count
                   THEN pc' = "attr" /\ i' = i
                   ELSE /\ i' = i + 1
                        /\ pc' = IF i + 1 < cf.methods_count THEN "method" ELSE "finish"
                /\ UNCHANGED <<fileOpened, closeCount, heap, cfp, cf, pool, k, attr,
                               field_attr_count, code_attr_count, result, fault>>
                /\ UNCHANGED Caller

\* attribute_name_index and attr_length of attribute j of method i
ReadAttrHeader ==
    /\ pc = "attr"
    /\ LET ok == CanRead(input, pos, 6)
           np == fread_pos(input, pos, 6)
       IN  IF ~ok
           THEN Fail(heap, cf, pool, methods, np, fault)
           ELSE /\ attr' = [name_index |-> read_u2(input, pos),
                            length |-> U32Val(read_u4(input, pos + 2)),
                            start |-> pos]
                /\ pos' = np
                /\ pc' = "attr_dispatch"
                /\ UNCHANGED <<fileOpened, closeCount, heap, cfp, cf, pool, methods, i, j,
                               k, field_attr_count, code_attr_count, result, fault>>
                /\ UNCHANGED Caller

\* the C string held in buffer b: its bytes up to and including the first NUL
CStr(b) ==
    LET nul == CHOOSE n \in 1..Len(b) : b[n] = 0 /\ \A x \in 1..(n - 1) : b[x] # 0
    IN  SubSeq(b, 1, nul)

\* strcmp(a, b) == 0
strcmp_eq(a, b) == CStr(a) = CStr(b)

\* faulty variant: the index one past the table taken for a valid one
NameIndexInRange_inclusive(n, count) == n <= count

\* attribute_name_index < cf->constant_pool_count
NameIndexInRange(n, count) == n < count

\* tag == CONSTANT_Utf8 && strcmp(bytes, "Code") == 0
IsCodeName(h, e) ==
    /\ e.tag = CONSTANT_Utf8
    /\ strcmp_eq(h[e.bytes].bytes, CodeLiteral)

\* position of the decoder once attribute j of method i is done
AfterAttr ==
    /\ j' = j + 1
    /\ IF j + 1 < MethodAt(methods, i).attributes_count
       THEN pc' = "attr" /\ i' = i
       ELSE /\ i' = i + 1
            /\ pc' = IF i + 1 < cf.methods_count THEN "method" ELSE "finish"

\* the dispatch on the attribute's name: out of range is fatal, "Code" gets a
\* zeroed code_attribute, anything else is skipped by a seek
DispatchAttr ==
    /\ pc = "attr_dispatch"
    /\ IF ~NameIndexInRange(attr.name_index, cf.constant_pool_count)
       THEN Fail(heap, cf, pool, methods, pos, fault)
       ELSE IF IsCodeName(heap, PoolAt(pool, attr.name_index))
       THEN \E out \in AllocOutcomes :
              IF out = "null"
              THEN LET m == (i :> [MethodAt(methods, i) EXCEPT
                                     !.code_attribute = NULL]) @@ methods
                   IN  Fail(heap, cf, pool, m, pos, "oom")
              ELSE /\ heap' = Alloc(heap, "code_attribute", <<>>)
                   /\ methods' = (i :> [MethodAt(methods, i) EXCEPT
                                          !.code_attribute = NewPtr(heap)]) @@ methods
                   /\ pc' = "code_core"
                   /\ UNCHANGED <<fileOpened, closeCount, pos, cfp, cf, pool, i, j, k,
                                  attr, field_attr_count, code_attr_count, result, fault>>
                   /\ UNCHANGED Caller
       ELSE \E sk \in SeekOutcomes :
              IF sk = "error"
              THEN Fail(heap, cf, pool, methods, pos, "seek")
              ELSE /\ pos' = fseek_pos(pos, attr.length)
                   /\ AfterAttr
                   /\ UNCHANGED <<fileOpened, closeCount, heap, cfp, cf, pool, methods,
                                  k, attr, field_attr_count, code_attr_count, result,
                                  fault>>
                   /\ UNCHANGED Caller

\* max_stack, max_locals, code_length, malloc(code_length), the code bytes
ReadCodeCore ==
    /\ pc = "code_core"
    /\ \E out \in AllocOutcomes :
        LET ok  == CanRead(input, pos, 8)
            np  == fread_pos(input, pos, 8)
            ca  == MethodAt(methods, i).code_attribute
            rd(off) == IF CanRead(input, pos, off + 2)
                       THEN read_u2(input, pos + off) ELSE 0
            len == IF ok THEN U32Val(read_u4(input, pos + 4)) ELSE 0
            c0  == [max_stack |-> rd(0), max_locals |-> rd(2), code_length |-> len,
                    code |-> NULL]
            h0  == [heap EXCEPT ![ca].ca = c0]
            h1  == [Alloc(h0, "code", FreadBytes(input, np, len))
                      EXCEPT ![ca].ca.code = NewPtr(heap)]
        IN  /\ out = "null" => ok
            /\ IF ~ok
               THEN Fail(h0, cf, pool, methods, np, fault)
               ELSE IF out = "null"
               THEN Fail(h0, cf, pool, methods, np, AllocFault(len))
               ELSE IF safe_fread(input, np, len) = 0
               THEN Fail(h1, cf, pool, methods, fread_pos(input, np, len), fault)
               ELSE /\ heap' = h1
                    /\ pos' = np + len
                    /\ pc' = "code_exc"
                    /\ UNCHANGED <<fileOpened, closeCount, cfp, cf, pool, methods, i, j,
                                   k, attr, field_attr_count, code_attr_count, result,
                                   fault>>
                    /\ UNCHANGED Caller

\* exception_table_length, then a seek over 8 bytes per entry
SkipExceptionTable ==
    /\ pc = "code_exc"
    /\ \E sk \in SeekOutcomes :
        LET ok == CanRead(input, pos, 2)
            np == fread_pos(input, pos, 2)
            n  == IF ok THEN read_u2(input, pos) ELSE 0
        IN  /\ sk = "error" => ok
            /\ IF ~ok
               THEN Fail(heap, cf, pool, methods, np, fault)
               ELSE IF sk = "error"
               THEN Fail(heap, cf, pool, methods, np, "seek")
               ELSE /\ pos' = fseek_pos(np, n * 8)
                    /\ pc' = "code_attrs"
                    /\ UNCHANGED <<fileOpened, closeCount, heap, cfp, cf, pool, methods,
                                   i, j, k, attr, field_attr_count, code_attr_count,
                                   result, fault>>
                    /\ UNCHANGED Caller

\* the Code attribute's own attribute count; its loop starts at k = 0
ReadCodeAttrCount ==
    /\ pc = "code_attrs"
    /\ LET ok == CanRead(input, pos, 2)
           np == fread_pos(input, pos, 2)
           n  == IF ok THEN read_u2(input, pos) ELSE 0
       IN  IF ~ok
           THEN Fail(heap, cf, pool, methods, np, fault)
           ELSE /\ code_attr_count' = n
                /\ k' = 0
                /\ pos' = np
                /\ IF 0 < n
                   THEN pc' = "code_sub" /\ UNCHANGED <<i, j>>
                   ELSE AfterAttr
                /\ UNCHANGED <<fileOpened, closeCount, heap, cfp, cf, pool, methods,
                               attr, field_attr_count, result, fault>>
                /\ UNCHANGED Caller

\* sub-attribute k of the Code attribute: name index, length, seek over it
SkipCodeSubAttr ==
    /\ pc = "code_sub"
    /\ \E sk \in SeekOutcomes :
        LET ok  == CanRead(input, pos, 6)
            np  == fread_pos(input, pos, 6)
            len == IF ok THEN U32Val(read_u4(input, pos + 2)) ELSE 0
        IN  /\ sk = "error" => ok
            /\ IF ~ok
               THEN Fail(heap, cf, pool, methods, np, fault)
               ELSE IF sk = "error"
               THEN Fail(heap, cf, pool, methods, np, "seek")
               ELSE /\ pos' = fseek_pos(np, len)
                    /\ k' = k + 1
                    /\ IF k + 1 < code_attr_count
                       THEN pc' = "code_sub" /\ UNCHANGED <<i, j>>
                       ELSE AfterAttr
                    /\ UNCHANGED <<fileOpened, closeCount, heap, cfp, cf, pool, methods,
                                   attr, field_attr_count, code_attr_count, result,
                                   fault>>
                    /\ UNCHANGED Caller

\* fclose(file); return cf
Finish ==
    /\ pc = "finish"
    /\ pc' = "returned"
    /\ result' = cfp
    /\ closeCount' = fclose(closeCount)
    /\ UNCHANGED <<fileOpened, pos, heap, cfp, cf, pool, methods, i, j, k, attr,
                   field_attr_count, code_attr_count, fault>>
    /\ UNCHANGED Caller

----------------------------------------------------------------------------
(* The caller *)

\* free_class_file(result), called by whoever holds the result.  A first call
\* on a container tears it down.  A later call on the same pointer reads the
\* freed ClassFile: the build may find the fields as the first call left them
\* (both tables NULL) and free the container again, or may fault.
Release ==
    /\ pc \in {"returned", "failed"}
    /\ releaseCalls < MaxRelease
    /\ releaseCalls' = releaseCalls + 1
    /\ IF result = NULL
       THEN UNCHANGED <<pc, heap, cf, pool, methods, uaf>>
       ELSE IF heap[result].frees = 0
       THEN /\ heap' = free_heap(heap, cf, pool, methods, result)
            /\ cf' = free_cf(cf, result)
            /\ pool' = free_pool(cf, pool, result)
            /\ methods' = free_methods(cf, methods, result)
            /\ UNCHANGED <<pc, uaf>>
       ELSE /\ uaf' = TRUE
            /\ \E outcome \in {"stale", "fault"} :
                IF outcome = "stale"
                THEN /\ heap' = free_heap(heap, cf, pool, methods, result)
                     /\ UNCHANGED <<pc, cf, pool, methods>>
                ELSE /\ pc' = "crashed"
                     /\ UNCHANGED <<heap, cf, pool, methods>>
    /\ UNCHANGED <<input, truncated, fileOpened, closeCount, pos, cfp, i, j, k, attr,
                   field_attr_count, code_attr_count, result, fault>>

\* the accepted file is cut to a proper prefix and decoded again from scratch
Truncate ==
    /\ pc = "returned"
    /\ ~truncated
    /\ \E n \in 0..(Len(input) - 1) :
        input' = SubSeq(input, 1, n)
    /\ truncated' = TRUE
    /\ fileOpened' = FALSE
    /\ closeCount' = 0
    /\ pos' = 0
    /\ pc' = "open"
    /\ heap' = <<>>
    /\ cfp' = NULL
    /\ cf' = ZeroCF
    /\ pool' = NoEntries
    /\ methods' = NoEntries
    /\ i' = 0 /\ j' = 0 /\ k' = 0
    /\ attr' = ZeroAttr
    /\ field_attr_count' = 0
    /\ code_attr_count' = 0
    /\ result' = NULL
    /\ fault' = "none"
    /\ releaseCalls' = 0
    /\ uaf' = FALSE

Next ==
    \/ Open
    \/ ReadMagic
    \/ ReadVersion
    \/ ReadPoolCount
    \/ AllocPool
    \/ ReadPoolEntry
    \/ ReadClassHeader
    \/ ReadInterfaces
    \/ ReadFieldsCount
    \/ ReadFieldInfo
    \/ SkipFieldAttr
    \/ ReadMethodsCount
    \/ AllocMethods
    \/ ReadMethodInfo
    \/ ReadAttrHeader
    \/ DispatchAttr
    \/ ReadCodeCore
    \/ SkipExceptionTable
    \/ ReadCodeAttrCount
    \/ SkipCodeSubAttr
    \/ Finish
    \/ Release
    \/ Truncate

Spec == Init /\ [][Next]_vars

----------------------------------------------------------------------------
(* Claims *)

\* every allocation made so far has been passed to free() exactly once
AllFreedOnce == \A x \in DOMAIN heap : heap[x].frees = 1

\* C1: every allocation read_class_file made is freed exactly once, by the
\* time a failed decode has returned NULL, or by one call of free_class_file
\* after a successful decode; for every input, a method with more than one
\* "Code" attribute included.
C1_FreedExactlyOnce ==
    /\ pc = "failed" => AllFreedOnce
    /\ (pc = "returned" /\ releaseCalls = 1) => AllFreedOnce


\* C2: decoding a proper prefix of an accepted input never returns a container.
C2_TruncationFails == truncated => pc # "returned"

\* the pool slots the decode loop has populated
Populated == {x \in DOMAIN pool : 1 <= x /\ x < cf.constant_pool_count}

\* C3: a method attribute whose name index lies outside the populated pool
\* slots (index 0 and the slot after a Long/Double are never populated) makes
\* the decode fail and return NULL, at whichever method and attribute it occurs.
C3_UnpopulatedNameAborts ==
    [][(pc = "attr_dispatch" /\ attr.name_index \notin Populated)
        => (pc' = "failed" /\ result' = NULL)]_vars

\* the entry is a Utf8 entry whose declared-length content is exactly "Code"
ExactlyCode(h, e) ==
    /\ e.tag = CONSTANT_Utf8
    /\ e.length = 4
    /\ SubSeq(h[e.bytes].bytes, 1, e.length) = <<67, 111, 100, 101>>

\* C4: an attribute whose name is a Utf8 entry with content exactly "Code" is
\* decoded into the method's code_attribute, whose code_length and code bytes
\* are those of the input; any other attribute with an in-range name index
\* leaves the method's code_attribute and the heap as they were and only moves
\* the cursor.
C4_CodeDispatch ==
    [][/\ (/\ pc = "attr_dispatch"
           /\ attr.name_index < cf.constant_pool_count
           /\ pc' # "failed")
          => IF ExactlyCode(heap, PoolAt(pool, attr.name_index))
             THEN pc' = "code_core"
             ELSE /\ methods' = methods
                  /\ heap' = heap
                  /\ pos' = pos + attr.length
       /\ (pc = "code_core" /\ pc' = "code_exc")
          => LET ca == heap'[methods'[i].code_attribute].ca
             IN  /\ read_u4(input, pos + 4) = <<0, 0>> \o U2(ca.code_length)
                 /\ heap'[ca.code].bytes = BytesAt(input, pos + 8, ca.code_length)
      ]_vars

\* the tag stored in slot x is a double-width tag
IsWide(x) == pool[x].tag \in {CONSTANT_Long, CONSTANT_Double}

\* the slot the loop turns to after slot x
SlotAfter(x) == IF IsWide(x) THEN x + 2 ELSE x + 1

\* C5: in the pool loop a Long or Double in slot x advances the index to x + 2
\* and leaves slot x + 1 zero, any other tag advances it by 1, slot 0 is never
\* populated, and the entry after a double-width entry lands in slot x + 2.
C5_PoolSlots ==
    LET W == DOMAIN pool
        last == CHOOSE x \in W : \A y \in W : y <= x
    IN  /\ 0 \notin W
        /\ \A x \in W : IsWide(x) => (x + 1 \notin W /\ PoolAt(pool, x + 1) = ZeroEntry)
        /\ \A x \in W : \/ x = 1
                        \/ (x - 1 \in W /\ ~IsWide(x - 1))
                        \/ (x - 2 \in W /\ IsWide(x - 2))
        /\ pc = "pool" => i = (IF W = {} THEN 1 ELSE SlotAfter(last))
        /\ pc \notin {"open", "magic", "version", "pool_count", "pool_alloc", "pool",
                      "failed"}
           => \A x \in W : SlotAfter(x) \in W \/ SlotAfter(x) >= cf.constant_pool_count

\* a Long in slot x is followed by a populated slot x + 2: final index alignment
C5_Witness ==
    \E x \in DOMAIN pool :
        /\ IsWide(x)
        /\ x + 2 \in DOMAIN pool
        /\ pool[x + 2].tag = CONSTANT_Utf8
        /\ pc = "class_header"

\* C6: decoding the minimal well-formed input succeeds and the container
\* reports constant_pool_count 1 and methods_count 0 (runs in which the file
\* cannot be opened or memory for a non-empty object runs out set aside).
C6_MinimalDecodes ==
    (/\ input = MinimalFile
     /\ pc \in {"failed", "returned"}
     /\ fault \notin {"open", "oom", "seek"})
    => /\ pc = "returned"
       /\ result # NULL
       /\ cf.constant_pool_count = 1
       /\ cf.methods_count = 0

\* the kinds of the objects allocated so far
HeapKinds == {heap[x].kind : x \in DOMAIN heap}

\* C7: when the first four bytes of the input, read big-endian, are not
\* 0xCAFEBABE, read_class_file fails and returns NULL with the cursor at
\* offset 4 and with no pool or method table allocated.
C7_BadMagicStopsAtFour ==
    (/\ cfp # NULL
     /\ pc \notin {"open", "magic"}
     /\ Len(input) >= 4
     /\ SubSeq(input, 1, 4) # JAVA_MAGIC)
    => /\ pc = "failed"
       /\ result = NULL
       /\ pos = 4
       /\ HeapKinds = {"ClassFile"}
       /\ cf.major_version = 0 /\ cf.minor_version = 0

C7_Witness ==
    /\ pc = "failed"
    /\ cfp # NULL
    /\ pos = 4
    /\ SubSeq(input, 1, 4) = <<190, 186, 254, 202>>

\* C8: free_class_file is idempotent: a second call on the same container
\* reads no freed memory and frees nothing, so no allocation is freed twice.
C8_ReleaseIdempotent ==
    /\ ~uaf
    /\ pc # "crashed"
    /\ \A x \in DOMAIN heap : heap[x].frees <= 1

\* read_class_file has returned
Returned == pc \in {"failed", "returned", "crashed"}

\* C9: once the file is open it is closed exactly once on every exit path,
\* never twice, and never before the exit.
C9_ClosedExactlyOnce ==
    /\ closeCount <= 1
    /\ ~fileOpened => closeCount = 0
    /\ ~Returned => closeCount = 0
    /\ (fileOpened /\ Returned) => closeCount = 1

\* a failure exit taken while a method's code buffer is held
C9_Witness ==
    /\ pc = "failed"
    /\ closeCount = 1
    /\ "code" \in HeapKinds
    /\ fault = "seek"

\* two bytes of the file as a big-endian number
BE16(b) == b[1] * 256 + b[2]

\* C10: the checks run in the order magic, version, pool count, pool entries,
\* class header, interfaces, fields, method count, methods, and the decode
\* fails at the first that fails: a major version outside 45..69 before the
\* pool count is read, a pool count above 32767 before the pool table is
\* allocated, a method count above 1000 before the methods table is allocated.
C10_HeaderOrder ==
    LET goodMagic == Len(input) >= 4 /\ SubSeq(input, 1, 4) = JAVA_MAGIC
        major == BE16(SubSeq(input, 7, 8))
        goodVersion == goodMagic /\ Len(input) >= 8 /\ major >= 45 /\ major <= 69
    IN  /\ (/\ cfp # NULL /\ goodMagic /\ Len(input) >= 8
            /\ (major < 45 \/ major > 69)
            /\ pc \notin {"open", "magic", "version"})
           => /\ pc = "failed" /\ result = NULL /\ pos = 8
              /\ cf.constant_pool_count = 0
              /\ HeapKinds = {"ClassFile"}
        /\ (/\ cfp # NULL /\ goodVersion /\ Len(input) >= 10
            /\ BE16(SubSeq(input, 9, 10)) > 32767
            /\ pc \notin {"open", "magic", "version", "pool_count"})
           => /\ pc = "failed" /\ result = NULL /\ pos = 10
              /\ HeapKinds = {"ClassFile"}
        /\ (cf.methods_count > 1000 /\ pc # "methods_count")
           => /\ pc = "failed" /\ result = NULL
              /\ "methods" \notin HeapKinds
        \* a later stage has run only if every earlier check passed
        /\ (cf.major_version # 0 \/ cf.minor_version # 0) => goodMagic
        /\ cf.constant_pool_count # 0 => goodVersion
        /\ "pool" \in HeapKinds => (goodVersion /\ cf.constant_pool_count <= 32767)
        /\ pool # NoEntries => "pool" \in HeapKinds
        /\ (cf.access_flags # 0 \/ cf.interfaces_count # 0 \/ cf.fields_count # 0
            \/ cf.methods_count # 0) => "pool" \in HeapKinds
        /\ "methods" \in HeapKinds => ("pool" \in HeapKinds /\ cf.methods_count <= 1000)
        /\ methods # NoEntries => "methods" \in HeapKinds

\* a method count above the ceiling, rejected after every earlier stage passed
C10_Witness ==
    /\ pc = "failed"
    /\ cf.methods_count = 1001
    /\ "pool" \in HeapKinds
    /\ "methods" \notin HeapKinds

\* size of n attribute records laid out from offset p: 6 + length each
RECURSIVE AttrsSize(_, _, _)
AttrsSize(inp, p, n) ==
    IF n = 0 THEN 0
    ELSE LET len == U32Val(read_u4(inp, p + 2))
         IN  6 + len + AttrsSize(inp, p + 6 + len, n - 1)

\* size of the Code structure laid out from offset p: 8 + code_length
\* + 2 + 8 * exception_table_length + 2 + its sub-attribute records
CodeSize(inp, p) ==
    LET code_length == U32Val(read_u4(inp, p + 4))
        excAt == p + 8 + code_length
        exception_table_length == read_u2(inp, excAt)
        subAt == excAt + 2 + 8 * exception_table_length
    IN  (subAt + 2 + AttrsSize(inp, subAt + 2, read_u2(inp, subAt))) - p

\* the step completes attribute j of method i without error
AttrDone == pc \in {"attr_dispatch", "code_attrs", "code_sub"} /\ j' = j + 1

\* the attribute being completed was handed to the Code decoder
AttrWasCode == pc \in {"code_attrs", "code_sub"}

\* the Code decoder consumes exactly the size of the Code structure
C11_CodeConsumption ==
    [][(AttrDone /\ AttrWasCode)
        => pos' = attr.start + 6 + CodeSize(input, attr.start + 6)]_vars

\* C11: once a method attribute of declared length L has been processed
\* without error the cursor is 6 + L bytes past the start of its record,
\* whether it was skipped or decoded as Code (the Code decoder consuming
\* 8 + code_length + 2 + 8 * exception_table_length + 2 + the sub-attributes).
C11_AttrCursor ==
    [][AttrDone
        => /\ pos' = attr.start + 6 + attr.length
           /\ AttrWasCode
              => pos' = attr.start + 6 + CodeSize(input, attr.start + 6)]_vars

\* the cursor is 6 + L past the record's start after every skipped attribute
C11_SkipCursor ==
    [][(AttrDone /\ ~AttrWasCode) => pos' = attr.start + 6 + attr.length]_vars


\* the tags the format defines (CONSTANT_* of the header)
RecognisedTags ==
    {CONSTANT_Class, CONSTANT_Fieldref, CONSTANT_Methodref,
     CONSTANT_InterfaceMethodref, CONSTANT_String, CONSTANT_Integer,
     CONSTANT_Float, CONSTANT_Long, CONSTANT_Double, CONSTANT_NameAndType,
     CONSTANT_Utf8}

\* the payload size the format gives the entry whose tag stands at offset p
FormatPayload(inp, p) ==
    LET tag == read_u1(inp, p)
    IN  CASE tag \in {CONSTANT_Class, CONSTANT_String} -> 2
          [] tag \in {CONSTANT_Integer, CONSTANT_Float} -> 4
          [] tag \in {CONSTANT_Fieldref, CONSTANT_Methodref,
                      CONSTANT_InterfaceMethodref, CONSTANT_NameAndType} -> 4
          [] tag \in {CONSTANT_Long, CONSTANT_Double} -> 8
          [] tag = CONSTANT_Utf8 -> 2 + read_u2(inp, p + 1)
          [] OTHER -> 0

\* the step is a successful call of read_constant_pool_entry
EntryDecoded == pc = "pool" /\ pc' # "failed"

\* C12: after the tag byte read_constant_pool_entry consumes exactly the
\* payload of the entry's kind: 2 bytes for Class and String, 4 for Integer
\* and Float, 4 for the member references and NameAndType, 8 for Long and
\* Double, 2 + length for Utf8, and nothing for a tag outside the recognised
\* set, which succeeds with slot count 1.
C12_EntryConsumption ==
    [][EntryDecoded
        => /\ pos' = pos + 1 + FormatPayload(input, pos)
           /\ read_u1(input, pos) \notin RecognisedTags => i' = i + 1]_vars

\* the same for every tag but Float
C12_ExceptFloat ==
    [][(EntryDecoded /\ read_u1(input, pos) # CONSTANT_Float)
        => /\ pos' = pos + 1 + FormatPayload(input, pos)
           /\ read_u1(input, pos) \notin RecognisedTags => i' = i + 1]_vars


\* the indices of the table calloc(constant_pool_count, sizeof(cp_info)) returned
TableSlots == 0..(cf.constant_pool_count - 1)

\* the buffer of a Utf8 entry is allocated, not freed, length + 1 bytes long
\* and ends in NUL
Terminated(h, e) ==
    /\ e.bytes # NULL
    /\ e.bytes \in DOMAIN h
    /\ h[e.bytes].frees = 0
    /\ Len(h[e.bytes].bytes) = e.length + 1
    /\ h[e.bytes].bytes[e.length + 1] = 0

\* every slot the decode loop wrote lies in 1 .. constant_pool_count - 1, and
\* the entry an attribute-name lookup is about to read, if Utf8, is terminated
PoolAccessInside ==
    /\ DOMAIN pool \subseteq (TableSlots \ {0})
    /\ pc = "pool" => i \in (TableSlots \ {0})
    /\ (pc = "attr_dispatch" /\ attr.name_index \in TableSlots
        /\ PoolAt(pool, attr.name_index).tag = CONSTANT_Utf8)
       => Terminated(heap, PoolAt(pool, attr.name_index))

\* the step went past the range test and read constant_pool[attribute_name_index]
NameLookedUp == pc = "attr_dispatch" /\ (pc' # "failed" \/ fault' # fault)

\* C13: every access to the constant-pool table stays inside it: the decode
\* loop writes only slots 1 .. constant_pool_count - 1 (a Long or Double in
\* the last slot ends the loop, slot constant_pool_count is not touched), an
\* attribute-name lookup reads only an index below constant_pool_count, and a
\* looked-up Utf8 entry has a non-NULL, NUL-terminated buffer.
C13_PoolAccess ==
    /\ []PoolAccessInside
    /\ [][NameLookedUp => attr.name_index \in TableSlots]_vars

\* a name was looked up and found to be "Code" in a table whose last slot
\* holds a Long that ended the pool loop one past the table
C13_Witness ==
    /\ pc = "code_core"
    /\ attr.name_index \in TableSlots
    /\ Terminated(heap, PoolAt(pool, attr.name_index))
    /\ cf.constant_pool_count - 1 \in DOMAIN pool
    /\ IsWide(cf.constant_pool_count - 1)

====
